---- MODULE Spec2Model ----
(***************************************************************************)
(* A model of lib/completion.py: the JediCompletion bridge between an      *)
(* editor and the jedi analysis engine.                                    *)
(*                                                                         *)
(* Python strings are sequences of one-character strings, so that          *)
(* startswith, split, lower, isupper and re.sub are computed as Python     *)
(* computes them.  The empty string '' is the empty sequence <<>>.         *)
(* File-system paths are sequences of components: '' is <<>>, '/' is       *)
(* <<"/">>, '/p/m.py' is <<"/", "p", "m.py">>.                             *)
(* Python dicts are functions whose domain is the set of keys present.     *)
(* Python None is <<"None">> where a string or a path may stand (no string  *)
(* holds a character of four letters, no path such a component) and the    *)
(* atom "None" where an enumeration value or an exception may stand.       *)
(***************************************************************************)
EXTENDS Integers, Sequences, FiniteSets, TLC

\* ------------------------------------------------------------------ bounds

\* Lines the input stream holds before end-of-input (arguments of a batch).
MaxLines == 2

\* The interpreter's recursion limit (sys.getrecursionlimit(), 1000 in
\* CPython), scaled down: a deeper call chain raises RecursionError.
RecursionLimit == 5

\* ------------------------------------------------------------------- text

None == <<"None">>
NoneAtom == "None"

Uppers == <<"A","B","C","D","E","F","G","H","I","J","K","L","M",
            "N","O","P","Q","R","S","T","U","V","W","X","Y","Z">>
Lowers == <<"a","b","c","d","e","f","g","h","i","j","k","l","m",
            "n","o","p","q","r","s","t","u","v","w","x","y","z">>
Digits == <<"0","1","2","3","4","5","6","7","8","9">>

Range(s) == {s[i] : i \in DOMAIN s}

IsUpperChar(c) == c \in Range(Uppers)
IsLowerChar(c) == c \in Range(Lowers)

\* str.lower() of one character
LowerChar(c) ==
    IF IsUpperChar(c)
    THEN Lowers[CHOOSE i \in DOMAIN Uppers : Uppers[i] = c]
    ELSE c

\* str.lower()
Lower(s) == [i \in DOMAIN s |-> LowerChar(s[i])]

\* str.isupper(): at least one cased character, and no lowercase one
IsUpper(s) ==
    /\ \E i \in DOMAIN s : IsUpperChar(s[i])
    /\ \A i \in DOMAIN s : ~IsLowerChar(s[i])

\* str.startswith(p)
StartsWith(s, p) ==
    /\ Len(p) <= Len(s)
    /\ SubSeq(s, 1, Len(p)) = p

\* WORD_RE = re.compile(r'\w'); WORD_RE.match(s) is not None
WordMatch(s) ==
    /\ Len(s) > 0
    /\ \/ IsUpperChar(s[1])
       \/ IsLowerChar(s[1])
       \/ s[1] \in Range(Digits)
       \/ s[1] = "_"

\* re.sub(pat, '', s) for a literal pattern: leftmost non-overlapping
\* occurrences removed
RECURSIVE RemoveAll(_, _)
RemoveAll(s, pat) ==
    IF Len(s) = 0 THEN <<>>
    ELSE IF Len(pat) > 0 /\ StartsWith(s, pat)
         THEN RemoveAll(SubSeq(s, Len(pat) + 1, Len(s)), pat)
         ELSE <<s[1]>> \o RemoveAll(Tail(s), pat)

\* str.split(sep) for a one-character separator: always at least one part
RECURSIVE Split(_, _)
Split(s, sep) ==
    IF \A i \in DOMAIN s : s[i] # sep THEN <<s>>
    ELSE LET k == CHOOSE i \in DOMAIN s :
                     s[i] = sep /\ \A j \in 1..(i - 1) : s[j] # sep
         IN  <<SubSeq(s, 1, k - 1)>> \o Split(SubSeq(s, k + 1, Len(s)), sep)

\* sep.join(parts)
RECURSIVE Join(_, _)
Join(parts, sep) ==
    IF Len(parts) = 0 THEN <<>>
    ELSE IF Len(parts) = 1 THEN parts[1]
    ELSE parts[1] \o sep \o Join(Tail(parts), sep)

\* '%s' % i for a small non-negative integer
RECURSIVE IntToStr(_)
IntToStr(i) ==
    IF i < 10 THEN <<Digits[i + 1]>>
    ELSE IntToStr(i \div 10) \o <<Digits[(i % 10) + 1]>>

\* dict.get(key, default)
Get(d, key, default) == IF key \in DOMAIN d THEN d[key] ELSE default

\* the empty dict {}
EmptyDict == <<>>

\* ------------------------------------------------------------ file system

\* The directories that hold a package marker, __init__.py.
PackageDirs == { <<"/", "p">>, <<"/", "p", "q">> }

\* os.path.split(path)[0]
DirName(path) ==
    IF path = <<>> \/ path = <<"/">> THEN path
    ELSE SubSeq(path, 1, Len(path) - 1)

\* os.path.isfile(os.path.join(dir, '__init__.py'))
HasInit(dirs, dir) == dir \in dirs

\* mutant of TopLevelModule: one step up, never a second one
TopLevelModuleOneStep(dirs, path) ==
    LET _path == DirName(path)
    IN  IF _path # path /\ HasInit(dirs, _path) THEN _path ELSE path

\* JediCompletion._get_top_level_module, on a file system whose package
\* directories are dirs.  Every call shortens the path, so the recursion
\* ends.
RECURSIVE TopLevelModule(_, _)
TopLevelModule(dirs, path) ==
    LET _path == DirName(path)
    IN  IF _path # path /\ HasInit(dirs, _path)
        THEN TopLevelModule(dirs, _path)
        ELSE path

\* ------------------------------------------------------- engine candidates

(***************************************************************************)
(* A candidate of the analysis engine (a jedi Completion, Name, Signature  *)
(* or ParamName) is a record of the attributes the bridge reads:           *)
(*   name, type, builtin (in_builtin_module()), module_path (None or a     *)
(*   path), module_name, line, column, doc (docstring()), has_params      *)
(*   (hasattr(c, 'params')) and params (a sequence of [name,               *)
(*   description]), parent ([name, type], the value of parent()),          *)
(*   has_definition (the object has a _definition that is not None) and    *)
(*   children (the sequence of [cls, code] of _definition.children).       *)
(* An answer of the engine is [raise |-> "None", value |-> v] when the     *)
(* call returns v and [raise |-> e] when it raises the exception e.        *)
(***************************************************************************)

Returns(v) == [raise |-> NoneAtom, value |-> v]
Raises(e) == [raise |-> e]

\* Python truthiness of a string-or-None
Truthy(v) == v # None /\ v # <<>>

\* JediCompletion.basic_types, with dict.get(type, type)
BasicType(type) ==
    CASE type = "module" -> "import"
      [] type = "instance" -> "variable"
      [] type = "statement" -> "value"
      [] type = "param" -> "variable"
      [] OTHER -> type

\* mutant of GetDefinitionType: the test for a constant comes first
GetDefinitionTypeConstantFirst(definition) ==
    IF definition.type \in {"statement"} /\ IsUpper(definition.name)
    THEN "constant"
    ELSE IF definition.type \notin {"import", "keyword"} /\ definition.builtin
         THEN "builtin"
         ELSE BasicType(definition.type)

\* JediCompletion._get_definition_type
GetDefinitionType(definition) ==
    IF definition.type \notin {"import", "keyword"} /\ definition.builtin
    THEN "builtin"
    ELSE IF definition.type \in {"statement"} /\ IsUpper(definition.name)
         THEN "constant"
         ELSE BasicType(definition.type)

nodes_to_display == {"InstanceElement", "String", "Node", "Lambda", "Number"}

RECURSIVE JoinCode(_)
JoinCode(children) ==
    IF Len(children) = 0 THEN <<>>
    ELSE (IF children[1].cls \in nodes_to_display
          THEN children[1].code ELSE <<>>) \o JoinCode(Tail(children))

\* JediCompletion._additional_info
AdditionalInfo(completion) ==
    IF ~completion.has_definition THEN <<>>
    ELSE IF completion.type = "statement"
         THEN RemoveAll(JoinCode(completion.children), <<"\n">>)
         ELSE <<>>

\* JediCompletion._generate_signature
GenerateSignature(completion) ==
    IF completion.type \in {"module"} \/ ~completion.has_params THEN <<>>
    ELSE completion.name \o <<"(">>
         \o Join([i \in DOMAIN completion.params |->
                     completion.params[i].description], <<",", " ">>)
         \o <<")">>

T_self == <<"s", "e", "l", "f">>
T_param == <<"p", "a", "r", "a", "m", " ">>

\* One turn of the inner loop of _get_call_signatures: the tuples param
\* contributes (none or one); pos is its 0-based position.
SignatureEntry(signature, pos, param) ==
    IF Len(param.name) = 0 THEN <<>>
    ELSE IF param.name = T_self /\ pos = 0 THEN <<>>
    ELSE IF ~WordMatch(param.name) THEN <<>>
    ELSE LET description == RemoveAll(param.description, T_param)
             parts == Split(description, "=")
             name == IF Len(parts) = 2 THEN parts[1] ELSE description
             value == IF Len(parts) = 2 THEN parts[2] ELSE None
         IN  IF StartsWith(name, <<"*">>) THEN <<>>
             ELSE << [signature |-> signature, name |-> name, value |-> value] >>

RECURSIVE SignatureParams(_, _)
SignatureParams(signature, pos) ==
    IF pos >= Len(signature.params) THEN <<>>
    ELSE SignatureEntry(signature, pos, signature.params[pos + 1])
         \o SignatureParams(signature, pos + 1)

RECURSIVE AllSignatureParams(_)
AllSignatureParams(call_signatures) ==
    IF Len(call_signatures) = 0 THEN <<>>
    ELSE SignatureParams(call_signatures[1], 0)
         \o AllSignatureParams(Tail(call_signatures))

\* JediCompletion._get_call_signatures; answer is what
\* script.get_signatures returns or raises.
GetCallSignatures(answer) ==
    IF answer.raise = "KeyError" THEN Returns(<<>>)
    ELSE IF answer.raise # NoneAtom THEN answer
    ELSE Returns(AllSignatureParams(answer.value))

\* ------------------------------------------------------------ serializers

\* json.dumps(obj): a str holding the JSON text of obj
JsonDumps(obj) == [pytype |-> "str", json |-> obj]

\* the list [] that _serialize_methods returns on KeyError
EmptyList == [pytype |-> "list", items |-> <<>>]

\* The dict _serialize_completions builds for one signature parameter
\* (lines 119-135); self holds the attributes set by _set_request_config.
ArgumentCompletion(self, t) ==
    [type |-> "property", rightLabel |-> AdditionalInfo(t.signature)]
    @@ (IF Truthy(t.value)
        THEN [snippet |-> t.name \o <<"=", "$", "{", "1", ":">> \o t.value
                          \o <<"}", "$", "0">>,
              text |-> t.name \o <<"=">> \o t.value]
        ELSE [snippet |-> t.name \o <<"=", "$", "1", "$", "0">>,
              text |-> t.name,
              displayText |-> t.name])
    @@ [description |-> IF self.show_doc_strings
                        THEN t.signature.doc
                        ELSE GenerateSignature(t.signature)]

\* The first loop of _serialize_completions (lines 115-136)
RECURSIVE ArgumentCompletions(_, _, _)
ArgumentCompletions(self, tuples, prefix) ==
    IF Len(tuples) = 0 THEN <<>>
    ELSE (IF ~self.fuzzy_matcher
             /\ ~StartsWith(Lower(tuples[1].name), Lower(prefix))
          THEN <<>>
          ELSE << ArgumentCompletion(self, tuples[1]) >>)
         \o ArgumentCompletions(self, Tail(tuples), prefix)

\* The dict _serialize_completions builds for one name completion
NameCompletion(self, completion) ==
    [text |-> completion.name,
     type |-> GetDefinitionType(completion),
     description |-> IF self.show_doc_strings
                     THEN completion.doc
                     ELSE GenerateSignature(completion),
     rightLabel |-> AdditionalInfo(completion)]

\* mutant of AddCompletions: a name completion is never taken for one the
\* list already has
RECURSIVE AddCompletionsAll(_, _, _)
AddCompletionsAll(self, completions, _completions) ==
    IF Len(completions) = 0 THEN _completions
    ELSE AddCompletionsAll(self, Tail(completions),
             Append(_completions, NameCompletion(self, completions[1])))

\* The second loop of _serialize_completions (lines 142-157)
RECURSIVE AddCompletions(_, _, _)
AddCompletions(self, completions, _completions) ==
    IF Len(completions) = 0 THEN _completions
    ELSE LET _completion == NameCompletion(self, completions[1])
             have == \E i \in DOMAIN _completions :
                        Split(_completions[i].text, "=")[1] = _completion.text
         IN  AddCompletions(self, Tail(completions),
                            IF have THEN _completions
                            ELSE Append(_completions, _completion))

\* JediCompletion._serialize_completions
SerializeCompletions(self, engine, identifier, prefix) ==
    LET signatures == GetCallSignatures(engine.get_signatures)
    IN  IF signatures.raise # NoneAtom THEN signatures
        ELSE IF engine.complete.raise \notin {NoneAtom, "KeyError"}
        THEN engine.complete
        ELSE LET completions == IF engine.complete.raise = "KeyError"
                                THEN <<>> ELSE engine.complete.value
             IN  Returns(JsonDumps(
                   [id |-> identifier,
                    results |-> AddCompletions(self, completions,
                        ArgumentCompletions(self, signatures.value, prefix))]))

T_marker == <<"_", "_", "a", "u", "t", "o", "c", "o", "m", "p", "l", "e",
              "t", "e", "_", "p", "y", "t", "h", "o", "n">>
T_self_class == <<"s", "e", "l", "f", ".", "_", "_", "c", "l", "a", "s", "s",
                  "_", "_">>

\* ARGUMENT_RE = re.compile(r'[a-zA-Z0-9_=\*"\']+'); ARGUMENT_RE.match(s)
ArgumentMatch(s) ==
    /\ Len(s) > 0
    /\ \/ WordMatch(s)
       \/ s[1] \in {"=", "*", "\"", "'"}

\* The dict _serialize_methods builds for one completion (lines 175-189)
MethodEntry(completion, instance) ==
    [parent |-> completion.parent.name,
     instance |-> instance,
     name |-> completion.name,
     params |-> IF completion.has_params
                THEN SelectSeq([i \in DOMAIN completion.params |->
                                   completion.params[i].description],
                               ArgumentMatch)
                ELSE <<>>,
     moduleName |-> completion.module_name,
     fileName |-> completion.module_path,
     line |-> completion.line,
     column |-> completion.column]

RECURSIVE MethodEntries(_, _)
MethodEntries(completions, instance) ==
    IF Len(completions) = 0 THEN <<>>
    ELSE (IF completions[1].parent.type = "class"
          THEN << MethodEntry(completions[1], instance) >>
          ELSE <<>>)
         \o MethodEntries(Tail(completions), instance)

\* JediCompletion._serialize_methods
SerializeMethods(engine, identifier) ==
    IF engine.completions.raise = "KeyError" THEN Returns(EmptyList)
    ELSE IF engine.completions.raise # NoneAtom THEN engine.completions
    ELSE LET completions == engine.completions.value
             marked == {i \in DOMAIN completions :
                           completions[i].name = T_marker}
             instance ==
                 IF marked = {} THEN T_self_class
                 ELSE completions[CHOOSE i \in marked :
                                     \A j \in marked : i <= j].parent.name
         IN  Returns(JsonDumps([id |-> identifier,
                                results |-> MethodEntries(completions, instance)]))

\* mutant of ArgumentsLoop: an argument is appended whether or not its name
\* was seen
RECURSIVE ArgumentsLoopAll(_, _, _, _, _)
ArgumentsLoopAll(self, tuples, seen, arguments, i) ==
    IF Len(tuples) = 0 THEN arguments
    ELSE LET name == tuples[1].name
             value == tuples[1].value
             skipped == Truthy(value) /\ self.use_snippets # "all"
             arg == IF ~Truthy(value)
                    THEN <<"$", "{">> \o IntToStr(i) \o <<":">> \o name
                         \o <<"}">>
                    ELSE name \o <<"=", "$", "{">> \o IntToStr(i) \o <<":">>
                         \o value \o <<"}">>
         IN  IF skipped
             THEN ArgumentsLoopAll(self, Tail(tuples), seen, arguments, i)
             ELSE ArgumentsLoopAll(self, Tail(tuples), seen \cup {name},
                                   Append(arguments, arg), i + 1)

\* The loop of _serialize_arguments (lines 205-215)
RECURSIVE ArgumentsLoop(_, _, _, _, _)
ArgumentsLoop(self, tuples, seen, arguments, i) ==
    IF Len(tuples) = 0 THEN arguments
    ELSE LET name == tuples[1].name
             value == tuples[1].value
             skipped == Truthy(value) /\ self.use_snippets # "all"
             arg == IF ~Truthy(value)
                    THEN <<"$", "{">> \o IntToStr(i) \o <<":">> \o name
                         \o <<"}">>
                    ELSE name \o <<"=", "$", "{">> \o IntToStr(i) \o <<":">>
                         \o value \o <<"}">>
         IN  IF skipped
             THEN ArgumentsLoop(self, Tail(tuples), seen, arguments, i)
             ELSE ArgumentsLoop(self, Tail(tuples), seen \cup {name},
                                IF name \notin seen
                                THEN Append(arguments, arg) ELSE arguments,
                                i + 1)

\* mutant of SerializeArguments: the snippet has no final tab stop
SerializeArgumentsBare(self, engine, identifier) ==
    LET signatures == GetCallSignatures(engine.get_signatures)
    IN  IF signatures.raise # NoneAtom THEN signatures
        ELSE Returns(JsonDumps(
               [id |-> identifier,
                results |-> <<>>,
                arguments |-> Join(ArgumentsLoop(self, signatures.value,
                                                 {}, <<>>, 1),
                                   <<",", " ">>)]))

\* JediCompletion._serialize_arguments
SerializeArguments(self, engine, identifier) ==
    LET signatures == GetCallSignatures(engine.get_signatures)
    IN  IF signatures.raise # NoneAtom THEN signatures
        ELSE Returns(JsonDumps(
               [id |-> identifier,
                results |-> <<>>,
                arguments |-> Join(ArgumentsLoop(self, signatures.value,
                                                 {}, <<>>, 1),
                                   <<",", " ">>) \o <<"$", "0">>]))

(***************************************************************************)
(* Definitions (jedi Name objects) are numbered; engine.defs maps a number *)
(* to the candidate record and engine.goto[n] is what n.goto_assignments() *)
(* returns, a sequence of numbers.                                         *)
(***************************************************************************)

\* d == definition (line 222): jedi compares the name, the module and the
\* position of two Name objects
DefEq(engine, a, b) ==
    LET x == engine.defs[a]
        y == engine.defs[b]
    IN  /\ x.name = y.name
        /\ x.module_path = y.module_path
        /\ x.line = y.line
        /\ x.column = y.column

\* JediCompletion._top_definition; depth is the number of nested calls of
\* it on the stack, this one included.
RECURSIVE TopDefinition(_, _, _)
TopDefinition(engine, definition, depth) ==
    IF depth > RecursionLimit THEN Raises("RecursionError")
    ELSE LET others == SelectSeq(engine.goto[definition],
                                 LAMBDA d : ~DefEq(engine, d, definition))
         IN  IF Len(others) = 0 THEN Returns(definition)
             ELSE IF engine.defs[others[1]].type = "import"
                  THEN TopDefinition(engine, others[1], depth + 1)
                  ELSE Returns(others[1])

\* Lines 242-246 and 260-264: the definition the loop body goes on with.
\* Returns 0 when the candidate is skipped.
ResolveDefinition(engine, n) ==
    IF ~Truthy(engine.defs[n].module_path) THEN Returns(0)
    ELSE LET top == IF engine.defs[n].type = "import"
                    THEN TopDefinition(engine, n, 1)
                    ELSE Returns(n)
         IN  IF top.raise # NoneAtom THEN top
             ELSE IF ~Truthy(engine.defs[top.value].module_path)
                  THEN Returns(0)
                  ELSE top

\* mutant of DefinitionEntry: the line is reported as the engine counts it
DefinitionEntryNativeLine(definition) ==
    [text |-> definition.name,
     type |-> GetDefinitionType(definition),
     fileName |-> definition.module_path,
     line |-> definition.line,
     column |-> definition.column]

\* The dict _serialize_definitions builds (lines 247-253)
DefinitionEntry(definition) ==
    [text |-> definition.name,
     type |-> GetDefinitionType(definition),
     fileName |-> definition.module_path,
     line |-> definition.line - 1,
     column |-> definition.column]

RECURSIVE DefinitionsLoop(_, _, _)
DefinitionsLoop(engine, definitions, _definitions) ==
    IF Len(definitions) = 0 THEN Returns(_definitions)
    ELSE LET r == ResolveDefinition(engine, definitions[1])
         IN  IF r.raise # NoneAtom THEN r
             ELSE DefinitionsLoop(engine, Tail(definitions),
                    IF r.value = 0 THEN _definitions
                    ELSE Append(_definitions,
                                DefinitionEntry(engine.defs[r.value])))

\* JediCompletion._serialize_definitions, applied to what
\* script.goto_assignments() returns or raises
SerializeDefinitions(engine, identifier) ==
    IF engine.goto_assignments.raise # NoneAtom THEN engine.goto_assignments
    ELSE LET r == DefinitionsLoop(engine, engine.goto_assignments.value, <<>>)
         IN  IF r.raise # NoneAtom THEN r
             ELSE Returns(JsonDumps([id |-> identifier, results |-> r.value]))

Whitespace == {" ", "\n", "\t", "\r"}

\* str.strip()
RECURSIVE Strip(_)
Strip(s) ==
    IF Len(s) = 0 THEN s
    ELSE IF s[1] \in Whitespace THEN Strip(Tail(s))
    ELSE IF s[Len(s)] \in Whitespace THEN Strip(SubSeq(s, 1, Len(s) - 1))
    ELSE s

\* The dict _serialize_tooltip builds (lines 266-278)
TooltipEntry(definition) ==
    LET doc == IF definition.doc # None THEN Strip(definition.doc)
               ELSE definition.doc
        description == IF ~Truthy(doc) THEN AdditionalInfo(definition)
                       ELSE doc
    IN  [text |-> definition.name,
         type |-> GetDefinitionType(definition),
         fileName |-> definition.module_path,
         description |-> description,
         line |-> definition.line - 1,
         column |-> definition.column]

\* The loop of _serialize_tooltip: it ends at the first candidate appended
RECURSIVE TooltipLoop(_, _)
TooltipLoop(engine, definitions) ==
    IF Len(definitions) = 0 THEN Returns(<<>>)
    ELSE LET r == ResolveDefinition(engine, definitions[1])
         IN  IF r.raise # NoneAtom THEN r
             ELSE IF r.value = 0 THEN TooltipLoop(engine, Tail(definitions))
             ELSE Returns(<< TooltipEntry(engine.defs[r.value]) >>)

\* JediCompletion._serialize_tooltip
SerializeTooltip(engine, identifier) ==
    IF engine.goto_assignments.raise # NoneAtom THEN engine.goto_assignments
    ELSE LET r == TooltipLoop(engine, engine.goto_assignments.value)
         IN  IF r.raise # NoneAtom THEN r
             ELSE Returns(JsonDumps([id |-> identifier, results |-> r.value]))

\* The dict _serialize_usages builds (lines 286-292)
UsageEntry(usage) ==
    [name |-> usage.name,
     moduleName |-> usage.module_name,
     fileName |-> usage.module_path,
     line |-> usage.line,
     column |-> usage.column]

\* JediCompletion._serialize_usages, applied to what script.usages()
\* returns or raises
SerializeUsages(engine, identifier) ==
    IF engine.usages.raise # NoneAtom THEN engine.usages
    ELSE Returns(JsonDumps(
           [id |-> identifier,
            results |-> [i \in DOMAIN engine.usages.value |->
                            UsageEntry(engine.usages.value[i])]]))

\* The dispatch of _process_request (lines 349-368): the value handed to
\* _write_response, or the exception raised before it is called.
Serialize(self, engine, request) ==
    LET lookup == Get(request, "lookup", "completions")
    IN  CASE lookup = "definitions" ->
               SerializeDefinitions(engine, request.id)
          [] lookup = "tooltip" ->
               SerializeTooltip(engine, request.id)
          [] lookup = "arguments" ->
               SerializeArguments(self, engine, request.id)
          [] lookup = "usages" ->
               SerializeUsages(engine, request.id)
          [] lookup = "methods" ->
               SerializeMethods(engine, request.id)
          [] OTHER ->
               SerializeCompletions(self, engine, request.id,
                                    Get(request, "prefix", <<>>))

\* ------------------------------------------------------- inputs of the model

\* A candidate with the attributes the serializers read
Candidate(name, type) ==
    [name |-> name, type |-> type, builtin |-> FALSE,
     module_path |-> <<"/", "p", "m.py">>, module_name |-> <<"m">>,
     line |-> 3, column |-> 4, doc |-> <<"d">>,
     has_params |-> FALSE, params |-> <<>>,
     parent |-> [name |-> <<"K">>, type |-> "class"],
     has_definition |-> FALSE, children |-> <<>>]

Param(name, description) == [name |-> name, description |-> description]

\* "param n" and "param k=3"
P_n == Param(<<"n">>, T_param \o <<"n">>)
P_k3 == Param(<<"k">>, T_param \o <<"k", "=", "3">>)

SignatureOf(name, params) ==
    [Candidate(name, "function") EXCEPT !.has_params = TRUE, !.params = params]

\* An engine that finds nothing
EmptyEngine ==
    [get_signatures |-> Returns(<<>>), complete |-> Returns(<<>>),
     completions |-> Returns(<<>>), goto_assignments |-> Returns(<<>>),
     usages |-> Returns(<<>>), defs |-> <<>>, goto |-> <<>>]

\* An engine that finds one candidate of each sort
SmallEngine ==
    [get_signatures |-> Returns(<< SignatureOf(<<"f">>, <<P_n, P_k3>>) >>),
     complete |-> Returns(<< Candidate(<<"n">>, "statement"),
                             Candidate(<<"g">>, "function") >>),
     completions |-> Returns(<< Candidate(<<"g">>, "function") >>),
     goto_assignments |-> Returns(<<1>>),
     usages |-> Returns(<< Candidate(<<"g">>, "function") >>),
     defs |-> << Candidate(<<"g">>, "function") >>,
     goto |-> << <<>> >>]

\* An engine every query of which raises e
RaisingEngine(e) ==
    [get_signatures |-> Raises(e), complete |-> Raises(e),
     completions |-> Raises(e), goto_assignments |-> Raises(e),
     usages |-> Raises(e), defs |-> <<>>, goto |-> <<>>]

\* What the engine may answer for one script of the dispatch loop
EngineAnswers ==
    {EmptyEngine, SmallEngine, RaisingEngine("KeyError"),
     RaisingEngine("Exception")}

Lookups ==
    {"completions", "definitions", "tooltip", "arguments", "usages", "methods"}

Ids == {1, 2}

\* sys.path when the process starts
InitialSysPath == << <<"/", "lib">> >>

BaseRequest ==
    [id |-> 1, source |-> <<"x">>, line |-> 0, column |-> 1,
     path |-> <<"/", "p", "q", "m.py">>]

RequestConfigs ==
    {[extraPaths |-> << <<"/", "x">> >>],
     [extraPaths |-> << <<"/", "p">> >>],
     [extraPaths |-> << <<"/", "lib">>, <<"/", "x">> >>,
      useSnippets |-> "all"]}

RequestPaths == { <<"/", "p", "q", "m.py">>, <<"/", "x", "m.py">> }

\* The requests of the model: every lookup kind under every id, and every
\* path with and without every config.
Requests ==
    {[BaseRequest EXCEPT !.id = i] @@ [lookup |-> l] :
        i \in Ids, l \in Lookups}
    \cup {[BaseRequest EXCEPT !.path = p] : p \in RequestPaths}
    \cup {[BaseRequest EXCEPT !.path = p] @@ [config |-> c] :
             p \in RequestPaths, c \in RequestConfigs}

\* A line of input: the JSON text of a request, or text json.loads rejects
\* (a blank line "\n", a truncated object).
Lines ==
    {[kind |-> "json", json |-> r] : r \in Requests}
    \cup {[kind |-> "blank"], [kind |-> "garbage"]}

NoLine == [kind |-> "none"]

\* ------------------------------------------------------------------ state

VARIABLES
    mode,          \* "stream" (watch) or "batch" (sys.argv[1:]), line 390
    nargs,         \* batch mode: len(sys.argv[1:])
    pc,            \* where the dispatcher stands
    exc,           \* the exception in flight, "None" when there is none
    nread,         \* lines read (arguments taken) so far
    eof,           \* readline has returned the empty string
    line,          \* the line (argument) in hand
    request,       \* the dict _deserialize returned
    fs,            \* the directories that hold __init__.py
    heap,          \* the Python list objects: name |-> contents
    sys_path,      \* the list object sys.path names
    default_sys_path,  \* the list object self.default_sys_path names
    self,          \* use_snippets, show_doc_strings, fuzzy_matcher, extra_paths
    case_insensitive_completion,   \* jedi.settings.case_insensitive_completion
    script,        \* the jedi.api.Script of the request
    engine,        \* what the engine answers for this script
    sys_stdout,    \* the stream sys.stdout names
    sys_stderr,    \* the stream sys.stderr names
    streams,       \* what has been written to stdout, stderr and devnull
    response,      \* serializer specification: the value a serializer returned
    log,           \* history: one entry per line taken, see LogEntry
    listed,        \* history: the paths earlier configs listed in extraPaths
    roots          \* history: the package roots resolved so far

vars ==
    <<mode, nargs, pc, exc, nread, eof, line, request, fs, heap, sys_path,
      default_sys_path, self, case_insensitive_completion, script, engine,
      sys_stdout, sys_stderr, streams, response, log, listed, roots>>

\* the attributes of the instance before the first _set_request_config
\* (they do not exist yet and are never read before it sets them)
FreshSelf ==
    [use_snippets |-> NoneAtom, show_doc_strings |-> TRUE,
     fuzzy_matcher |-> FALSE, extra_paths |-> <<>>]

\* self.stdout, self.stderr and self.devnull (lines 26-27)
self_stdout == "stdout"
self_stderr == "stderr"
self_devnull == "devnull"

\* history: decoded, the line decoded; failure, what the engine queries of
\* the request raised ("None" when they all returned); returned,
\* _process_request returned without raising
LogEntry(id, decoded, failure, returned) ==
    [id |-> id, decoded |-> decoded, failure |-> failure,
     returned |-> returned]

Init ==
    /\ mode \in {"stream", "batch"}
    /\ nargs \in (IF mode = "batch" THEN 1..MaxLines ELSE {0})
    /\ pc = "loop"
    /\ exc = NoneAtom
    /\ nread = 0
    /\ eof = FALSE
    /\ line = NoLine
    /\ request = EmptyDict
    /\ fs = PackageDirs
    /\ heap = [L0 |-> InitialSysPath]
    /\ sys_path = "L0"
    /\ default_sys_path = "L0"
    /\ self = FreshSelf
    /\ case_insensitive_completion = TRUE
    /\ script = EmptyDict
    /\ engine = EmptyDict
    /\ sys_stdout = "stdout"
    /\ sys_stderr = "stderr"
    /\ streams = [stdout |-> <<>>, stderr |-> <<>>, devnull |-> <<>>]
    /\ response = EmptyDict
    /\ log = <<>>
    /\ listed = {}
    /\ roots = {}

\* mutant of Write: the data goes in front of what the stream holds
WriteInFront(strs, stream, data) == [strs EXCEPT ![stream] = <<data>> \o @]

\* stream.write(data)
Write(strs, stream, data) == [strs EXCEPT ![stream] = Append(@, data)]

\* raise e out of _process_request: its locals are gone
Raise(e) ==
    /\ pc' = "raised"
    /\ exc' = e
    /\ line' = NoLine
    /\ request' = EmptyDict
    /\ script' = EmptyDict
    /\ engine' = EmptyDict

\* mutant of ReadLine: a blank line ends the loop as an empty read does
ReadLineStopsAtBlank ==
    /\ pc = "loop"
    /\ mode = "stream"
    /\ sys_stdout' = self_devnull
    /\ sys_stderr' = self_devnull
    /\ \/ /\ eof' = TRUE
          /\ pc' = "done"
          /\ UNCHANGED <<line, nread>>
       \/ /\ nread < MaxLines
          /\ \E l \in Lines : line' = l
          /\ nread' = nread + 1
          /\ pc' = IF line'.kind = "blank" THEN "done" ELSE "process"
          /\ UNCHANGED eof
    /\ UNCHANGED <<mode, nargs, exc, request, fs, heap, sys_path,
                   default_sys_path, self, case_insensitive_completion,
                   script, engine, streams, response, log, listed, roots>>

\* watch, lines 378-381: redirect, read a line, return at end of input
ReadLine ==
    /\ pc = "loop"
    /\ mode = "stream"
    /\ sys_stdout' = self_devnull
    /\ sys_stderr' = self_devnull
    /\ \/ /\ eof' = TRUE
          /\ pc' = "done"
          /\ UNCHANGED <<line, nread>>
       \/ /\ nread < MaxLines
          /\ \E l \in Lines : line' = l
          /\ nread' = nread + 1
          /\ pc' = "process"
          /\ UNCHANGED eof
    /\ UNCHANGED <<mode, nargs, exc, request, fs, heap, sys_path,
                   default_sys_path, self, case_insensitive_completion,
                   script, engine, streams, response, log, listed, roots>>

\* __main__, lines 391-392: the next argument, handled by a new
\* JediCompletion (lines 23-27), or the end of the arguments
NextArg ==
    /\ pc = "loop"
    /\ mode = "batch"
    /\ \/ /\ nread = nargs
          /\ pc' = "done"
          /\ UNCHANGED <<line, nread, default_sys_path, self>>
       \/ /\ nread < nargs
          /\ default_sys_path' = sys_path
          /\ self' = FreshSelf
          /\ \E l \in Lines : line' = l
          /\ nread' = nread + 1
          /\ pc' = "process"
    /\ UNCHANGED <<mode, nargs, exc, eof, request, fs, heap, sys_path,
                   case_insensitive_completion, script, engine, sys_stdout,
                   sys_stderr, streams, response, log, listed, roots>>

\* _deserialize (line 330): json.loads raises ValueError on text that is
\* not JSON
Deserialize ==
    /\ pc = "process"
    /\ IF line.kind = "json"
       THEN /\ request' = line.json
            /\ pc' = "config"
            /\ UNCHANGED <<exc, line, script, engine, log>>
       ELSE /\ Raise("ValueError")
            /\ log' = Append(log, LogEntry(0, FALSE, NoneAtom, FALSE))
    /\ UNCHANGED <<mode, nargs, nread, eof, fs, heap, sys_path,
                   default_sys_path, self, case_insensitive_completion,
                   sys_stdout, sys_stderr, streams, response, listed, roots>>

\* mutant of ExtraPaths: self.extra_paths is not emptied first
ExtraPathsKept(old, config, path_list) ==
    old \o SelectSeq(Get(config, "extraPaths", <<>>),
                     LAMBDA path : path # <<>> /\ path \notin Range(path_list))

\* lines 322-325: the extra paths of the request; old is self.extra_paths
\* before the call and path_list the contents of sys.path
ExtraPaths(old, config, path_list) ==
    SelectSeq(Get(config, "extraPaths", <<>>),
              LAMBDA path : path # <<>> /\ path \notin Range(path_list))

\* _set_request_config (line 332, lines 306-325)
SetRequestConfig ==
    /\ pc = "config"
    /\ LET config == Get(request, "config", EmptyDict)
       IN  /\ sys_path' = default_sys_path
           /\ self' =
                [use_snippets |-> Get(config, "useSnippets", NoneAtom),
                 show_doc_strings |-> Get(config, "showDescriptions", TRUE),
                 fuzzy_matcher |-> Get(config, "fuzzyMatcher", FALSE),
                 extra_paths |-> ExtraPaths(self.extra_paths, config,
                                            heap[default_sys_path])]
           /\ case_insensitive_completion' =
                Get(config, "caseInsensitiveCompletion", TRUE)
           /\ listed' = listed \cup Range(Get(config, "extraPaths", <<>>))
    /\ pc' = "resolve"
    /\ UNCHANGED <<mode, nargs, exc, nread, eof, line, request, fs, heap,
                   default_sys_path, script, engine, sys_stdout, sys_stderr,
                   streams, response, log, roots>>

\* sys.path.insert(0, path) when path is not on it (lines 335-336), as
\* the new contents of the list
InsertRoot(path_list, path) ==
    IF path \notin Range(path_list) THEN <<path>> \o path_list ELSE path_list

\* mutant of ScriptPos: the request's line is handed on as it is
ScriptPosAsGiven(req) == <<req.line, req.column>>

\* line 345: script._pos, the (row, column) every query is made at
ScriptPos(req) == <<req.line + 1, req.column>>

\* lines 334-345: resolve the package root, put it on sys.path, build the
\* script; the engine's answers for this script are fixed here
BuildScript ==
    /\ pc = "resolve"
    /\ LET path == TopLevelModule(fs, Get(request, "path", <<>>))
       IN  /\ heap' = [heap EXCEPT ![sys_path] = InsertRoot(@, path)]
           /\ script' =
                [code |-> request.source,
                 path |-> Get(request, "path", <<>>),
                 project |-> [path |-> path,
                              added_sys_path |-> self.extra_paths],
                 pos |-> ScriptPos(request)]
           /\ roots' = roots \cup {path}
    /\ \E e \in EngineAnswers : engine' = e
    /\ pc' = "dispatch"
    /\ UNCHANGED <<mode, nargs, exc, nread, eof, line, request, fs, sys_path,
                   default_sys_path, self, case_insensitive_completion,
                   sys_stdout, sys_stderr, streams, response, log, listed>>

\* the engine queries a lookup makes
Queries(lookup) ==
    CASE lookup \in {"definitions", "tooltip"} -> {"goto_assignments"}
      [] lookup = "arguments" -> {"get_signatures"}
      [] lookup = "usages" -> {"usages"}
      [] lookup = "methods" -> {"completions"}
      [] OTHER -> {"get_signatures", "complete"}

\* history: what the queries of a lookup raise, "None" when all return
EngineFailure(e, lookup) ==
    IF \A q \in Queries(lookup) : e[q].raise = NoneAtom THEN NoneAtom
    ELSE IF \A q \in Queries(lookup) : e[q].raise = "KeyError"
         THEN "KeyError"
         ELSE "Exception"

\* mutant of WriteTarget: sys.stdout is not restored before the write
WriteTargetNotRestored(current) == current

\* the stream _write_response writes to (line 371: sys.stdout = self.stdout)
WriteTarget(current) == self_stdout

\* lines 349-368 and _write_response (lines 370-373): query the engine,
\* serialize, write the line
Dispatch ==
    /\ pc = "dispatch"
    /\ LET r == Serialize(self, engine, request)
           normal == EngineFailure(engine,
                                   Get(request, "lookup", "completions"))
       IN  IF r.raise # NoneAtom
           THEN /\ Raise(r.raise)
                /\ log' = Append(log, LogEntry(request.id, TRUE, normal, FALSE))
                /\ UNCHANGED <<sys_stdout, streams>>
           ELSE /\ sys_stdout' = WriteTarget(sys_stdout)
                /\ IF r.value.pytype = "str"
                   THEN /\ streams' = Write(streams, sys_stdout',
                                            [text |-> r.value.json,
                                             end |-> "\n"])
                        /\ pc' = "loop"
                        /\ exc' = exc
                        /\ line' = NoLine
                        /\ request' = EmptyDict
                        /\ script' = EmptyDict
                        /\ engine' = EmptyDict
                        /\ log' = Append(log, LogEntry(request.id, TRUE,
                                                       normal, TRUE))
                   ELSE /\ Raise("TypeError")
                        /\ log' = Append(log, LogEntry(request.id, TRUE,
                                                       normal, FALSE))
                        /\ UNCHANGED streams
    /\ UNCHANGED <<mode, nargs, nread, eof, fs, heap, sys_path,
                   default_sys_path, self, case_insensitive_completion,
                   sys_stderr, response, listed, roots>>

\* mutant of WatchExcept: the diagnostic is written to the real stdout
WatchExceptOnStdout ==
    /\ pc = "raised"
    /\ mode = "stream"
    /\ sys_stdout' = self_stdout
    /\ streams' = Write(streams, sys_stdout',
                        [text |-> <<"traceback", exc>>, end |-> "\n"])
    /\ exc' = NoneAtom
    /\ pc' = "loop"
    /\ UNCHANGED <<mode, nargs, nread, eof, line, request, fs, heap, sys_path,
                   default_sys_path, self, case_insensitive_completion,
                   script, engine, sys_stderr, response, log, listed, roots>>

\* mutant of WatchExcept: the exception is reported and raised again
WatchExceptReraises ==
    /\ pc = "raised"
    /\ mode = "stream"
    /\ sys_stderr' = self_stderr
    /\ streams' = Write(streams, sys_stderr',
                        [text |-> <<"traceback", exc>>, end |-> "\n"])
    /\ pc' = "crashed"
    /\ UNCHANGED <<mode, nargs, exc, nread, eof, line, request, fs, heap,
                   sys_path, default_sys_path, self,
                   case_insensitive_completion, script, engine, sys_stdout,
                   response, log, listed, roots>>

\* watch, lines 384-387: the exception is reported and the loop goes on
WatchExcept ==
    /\ pc = "raised"
    /\ mode = "stream"
    /\ sys_stderr' = self_stderr
    /\ streams' = Write(streams, sys_stderr',
                        [text |-> <<"traceback", exc>>, end |-> "\n"])
    /\ exc' = NoneAtom
    /\ pc' = "loop"
    /\ UNCHANGED <<mode, nargs, nread, eof, line, request, fs, heap, sys_path,
                   default_sys_path, self, case_insensitive_completion,
                   script, engine, sys_stdout, response, log, listed, roots>>

\* __main__, line 392: nothing catches the exception; the interpreter
\* reports it on sys.stderr and the process exits
Uncaught ==
    /\ pc = "raised"
    /\ mode = "batch"
    /\ streams' = Write(streams, sys_stderr,
                        [text |-> <<"traceback", exc>>, end |-> "\n"])
    /\ pc' = "crashed"
    /\ UNCHANGED <<mode, nargs, exc, nread, eof, line, request, fs, heap,
                   sys_path, default_sys_path, self,
                   case_insensitive_completion, script, engine, sys_stdout,
                   sys_stderr, response, log, listed, roots>>

Next ==
    \/ ReadLine
    \/ NextArg
    \/ Deserialize
    \/ SetRequestConfig
    \/ BuildScript
    \/ Dispatch
    \/ WatchExcept
    \/ Uncaught

Spec == Init /\ [][Next]_vars

\* ------------------------------------------------- the loop on its own

\* The lines of a stream: a request of every lookup kind, a blank line, a
\* line that is not JSON
StreamLines ==
    {[kind |-> "json", json |-> BaseRequest @@ [lookup |-> l]] :
        l \in Lookups}
    \cup {[kind |-> "blank"], [kind |-> "garbage"]}

\* __main__, line 394: no arguments, the process serves its input stream
WatchInit == Init /\ mode = "stream"

\* watch, lines 378-381, on the lines of StreamLines
WatchReadLine == ReadLine /\ (line' = NoLine \/ line' \in StreamLines)

WatchNext ==
    \/ WatchReadLine
    \/ Deserialize
    \/ SetRequestConfig
    \/ BuildScript
    \/ Dispatch
    \/ WatchExcept

\* the steps of the loop around the dispatch of a request
WatchAround ==
    \/ WatchReadLine
    \/ Deserialize
    \/ SetRequestConfig
    \/ BuildScript
    \/ WatchExcept

\* The interpreter goes on to the next statement as long as there is one:
\* a read returns (a line, or '' at the end of a finite input), and the
\* dispatch of a request ends, its engine calls returning or raising.
\* Dispatch is enabled exactly when pc = "dispatch" and leaves that
\* position, so the last conjunct is WF_vars(Dispatch).
WatchSpec ==
    /\ WatchInit
    /\ [][WatchNext]_vars
    /\ WF_vars(WatchAround)
    /\ []<>(pc # "dispatch")

\* ------------------------------------------- the serializers on their own

\* Signatures the engine may report at the cursor
MaxSignatures == 2

\* Definitions of an import graph
NumDefs == 3

SeqsUpTo(S, n) == UNION {[1..k -> S] : k \in 0..n}

\* "param self", "param *args", "param K"
P_self == Param(T_self, T_param \o T_self)
P_args == Param(<<"a", "r", "g", "s">>, T_param \o <<"*", "a", "r", "g", "s">>)
P_K == Param(<<"K">>, T_param \o <<"K">>)

ParamLists ==
    { <<P_n>>, <<P_k3, P_n>>, <<P_self, P_n, P_k3>>, <<P_args, P_K>> }

CompletionLists ==
    { <<>>,
      << Candidate(<<"n">>, "statement") >>,
      << Candidate(<<"g">>, "function"), Candidate(<<"n">>, "statement") >>,
      << Candidate(<<"k">>, "param"), Candidate(<<"K">>, "statement") >> }

\* Engines that report signatures and name completions at the cursor
SignatureEngines ==
    {[EmptyEngine EXCEPT
        !.get_signatures =
            Returns([i \in DOMAIN ps |-> SignatureOf(<<"f">>, ps[i])]),
        !.complete = Returns(cs)] :
     ps \in SeqsUpTo(ParamLists, MaxSignatures), cs \in CompletionLists}

\* The definition numbered n of an import graph
DefinitionOf(n, type, has_path) ==
    [Candidate(<<Lowers[n]>>, type) EXCEPT
        !.module_path = IF has_path THEN <<"/", "p", Lowers[n]>> ELSE None,
        !.line = n]

\* what goto_assignments() of definition n may return: nothing, one
\* definition, or (for the candidate at the cursor) itself and then
\* another one
GotoLists(n) ==
    { <<>> } \cup { <<m>> : m \in 1..NumDefs }
    \cup (IF n = 1 THEN { <<n, m>> : m \in 2..NumDefs } ELSE {})

\* Engines whose candidate at the cursor is definition 1 of an import
\* graph of NumDefs definitions, at most one of which has no module path
ImportEngines ==
    {[EmptyEngine EXCEPT
        !.goto_assignments = Returns(<<1>>),
        !.defs = [n \in 1..NumDefs |->
                     DefinitionOf(n, types[n], n # pathless)],
        !.goto = goto] :
     types \in [1..NumDefs -> {"import", "function"}],
     pathless \in 0..NumDefs,
     goto \in {g \in [1..NumDefs -> UNION {GotoLists(n) : n \in 1..NumDefs}] :
                  \A n \in 1..NumDefs : g[n] \in GotoLists(n)}}

Selves ==
    {[use_snippets |-> u, show_doc_strings |-> d, fuzzy_matcher |-> f,
      extra_paths |-> <<>>] :
     u \in {NoneAtom, "all"}, d \in BOOLEAN, f \in BOOLEAN}

Prefixes == { <<>>, <<"N">>, <<"k">> }

\* The state a serializer is applied in: the instance attributes, the
\* engine's answers and the request are drawn; nothing else is in use.
SerializerInit(engines, selves, requests) ==
    /\ mode = "stream"
    /\ nargs = 0
    /\ pc = "dispatch"
    /\ exc = NoneAtom
    /\ nread = 1
    /\ eof = FALSE
    /\ line = NoLine
    /\ request \in requests
    /\ fs = PackageDirs
    /\ heap = [L0 |-> InitialSysPath]
    /\ sys_path = "L0"
    /\ default_sys_path = "L0"
    /\ self \in selves
    /\ case_insensitive_completion = TRUE
    /\ script = EmptyDict
    /\ engine \in engines
    /\ sys_stdout = "devnull"
    /\ sys_stderr = "devnull"
    /\ streams = [stdout |-> <<>>, stderr |-> <<>>, devnull |-> <<>>]
    /\ response = EmptyDict
    /\ log = <<>>
    /\ listed = {}
    /\ roots = {}

\* lines 349-368 up to the call of _write_response: the value the
\* serializer of the request's lookup returns, or what it raises
ApplySerializer ==
    /\ pc = "dispatch"
    /\ response' = Serialize(self, engine, request)
    /\ pc' = "serialized"
    /\ UNCHANGED <<mode, nargs, exc, nread, eof, line, request, fs, heap,
                   sys_path, default_sys_path, self,
                   case_insensitive_completion, script, engine, sys_stdout,
                   sys_stderr, streams, log, listed, roots>>

\* Serializers on signatures and completions, on zero candidates and on
\* one candidate of each sort
SerInit ==
    \/ SerializerInit(SignatureEngines, Selves,
          {[BaseRequest EXCEPT !.id = 1] @@ [lookup |-> l, prefix |-> p] :
              l \in {"completions", "arguments"}, p \in Prefixes})
    \/ SerializerInit({EmptyEngine, SmallEngine}, Selves,
          {[BaseRequest EXCEPT !.id = i] @@ [lookup |-> l] :
              i \in Ids, l \in Lookups})

SerNext == ApplySerializer

SerSpec == SerInit /\ [][SerNext]_vars

\* Serializers that resolve imports
ImportInit ==
    SerializerInit(ImportEngines, {FreshSelf},
        {[BaseRequest EXCEPT !.id = 1] @@ [lookup |-> l] :
            l \in {"definitions", "tooltip"}})

ImportNext == ApplySerializer

ImportSpec == ImportInit /\ [][ImportNext]_vars

\* ------------------------------------ the serializers on one candidate list

\* Candidates the engine may report for one query
MaxCandidates == 2

\* Rows and columns of a buffer: of the cursor in a request, of a
\* candidate the engine reports
MaxRow == 2
MaxColumn == 1

\* The kinds the engine gives its candidates
NativeKinds ==
    {"module", "instance", "statement", "param", "import", "keyword",
     "function", "class"}

\* Names: all uppercase, all lowercase, mixed, without a cased character,
\* uppercase with a digit
CandidateNames ==
    { <<"N">>, <<"n">>, <<"N", "n">>, <<"_">>, <<"N", "1">> }

\* One candidate of every kind, name case and built-in flag
KindCandidates ==
    {[Candidate(name, type) EXCEPT !.builtin = b] :
        name \in CandidateNames, type \in NativeKinds, b \in BOOLEAN}

\* One candidate at every position; the engine counts lines from 1 and
\* columns from 0
PositionCandidates ==
    {[Candidate(<<"g">>, "function") EXCEPT !.line = l, !.column = c] :
        l \in 1..(MaxRow + 1), c \in 0..MaxColumn}

\* docstring() of a candidate: None, blank, or text within white space
DocStrings == { None, <<" ">>, <<" ", "d", "\n">> }

\* module_path of a candidate: None, '', or a file
ModulePaths == { None, <<>>, <<"/", "p", "m.py">> }

\* Candidates with and without an origin file, a doc string, and a
\* right-hand side to show (a statement whose value is the number 3)
OriginCandidates ==
    {[Candidate(<<"g">>, IF rhs THEN "statement" ELSE "function") EXCEPT
        !.module_path = path, !.doc = doc,
        !.has_definition = rhs,
        !.children = IF rhs THEN << [cls |-> "Number", code |-> <<"3">>] >>
                     ELSE <<>>] :
     path \in ModulePaths, doc \in DocStrings, rhs \in BOOLEAN}

\* The candidates of a list told apart by name and line: the i-th is
\* named by the i-th letter and stands on line i
Numbered(cs) ==
    [i \in DOMAIN cs |-> [cs[i] EXCEPT !.name = <<Lowers[i]>>, !.line = i]]

\* An engine that answers every query with the candidates cs, none of
\* which goto_assignments() takes any further
EngineOn(cs) ==
    [get_signatures |-> Returns(<<>>), complete |-> Returns(cs),
     completions |-> Returns(cs),
     goto_assignments |-> Returns([i \in DOMAIN cs |-> i]),
     usages |-> Returns(cs), defs |-> cs,
     goto |-> [i \in DOMAIN cs |-> <<>>]]

CandidateEngines ==
    {EngineOn(<<c>>) : c \in KindCandidates \cup PositionCandidates}
    \cup {EngineOn(Numbered(cs)) :
             cs \in SeqsUpTo(OriginCandidates, MaxCandidates)}

\* Every serializer of candidates on the same candidates
CandidateInit ==
    SerializerInit(CandidateEngines, {FreshSelf},
        {[BaseRequest EXCEPT !.id = 1] @@ [lookup |-> l] :
            l \in Lookups \ {"arguments"}})

CandidateNext == ApplySerializer

CandidateSpec == CandidateInit /\ [][CandidateNext]_vars

\* ------------------------------------------ the arguments on their own

\* "param m", "param k", "param k=a=b" (a default value that holds '=')
P_m == Param(<<"m">>, T_param \o <<"m">>)
P_k == Param(<<"k">>, T_param \o <<"k">>)
P_keq == Param(<<"k">>, T_param \o <<"k", "=", "a", "=", "b">>)

\* The parameters of a signature at the cursor: names alone and in
\* several signatures, with a default value in one and without in another
ArgumentLists ==
    { <<P_n>>, <<P_n, P_m>>, <<P_k3, P_n>>, <<P_k>>, <<P_keq, P_k>>,
      <<P_self, P_n, P_k3>> }

ArgumentEngines ==
    {[EmptyEngine EXCEPT
        !.get_signatures =
            Returns([i \in DOMAIN ps |-> SignatureOf(<<"f">>, ps[i])])] :
     ps \in SeqsUpTo(ArgumentLists, MaxSignatures)}

\* config.get('useSnippets'): absent, 'all', 'required'
SnippetModes == {NoneAtom, "all", "required"}

ArgumentsInit ==
    SerializerInit(ArgumentEngines,
        {[FreshSelf EXCEPT !.use_snippets = u] : u \in SnippetModes},
        {[BaseRequest EXCEPT !.id = 1] @@ [lookup |-> "arguments"]})

ArgumentsNext == ApplySerializer

ArgumentsSpec == ArgumentsInit /\ [][ArgumentsNext]_vars

\* --------------------------------------- the configuration on its own

\* Entries of an extraPaths list
MaxExtraPaths == 3

\* Directories below the root (and below the working directory)
MaxDepth == 2

\* What an entry of extraPaths may be: the empty string, a path on the
\* start-up sys.path, two paths that are not on it
ExtraPathChoices ==
    { <<>>, <<"/", "lib">>, <<"/", "x">>, <<"/", "y">> }

ExtraPathsRequests ==
    {BaseRequest @@ [config |-> [extraPaths |-> s]] :
        s \in SeqsUpTo(ExtraPathChoices, MaxExtraPaths)}

\* The directories p, p/p, ... of the working directory ('' itself
\* included) and /, /p, /p/p, ...
Directories ==
    SeqsUpTo({"p"}, MaxDepth)
    \cup {<<"/">> \o d : d \in SeqsUpTo({"p"}, MaxDepth)}

\* Every layout of __init__.py files over the directories
Layouts == SUBSET Directories

\* The directories and the file m.py in each of them
FilePaths == Directories \cup {Append(d, "m.py") : d \in Directories}

PathRequests == {[BaseRequest EXCEPT !.path = p] : p \in FilePaths}

PositionRequests ==
    {[BaseRequest EXCEPT !.line = l, !.column = c] :
        l \in 0..MaxRow, c \in 0..MaxColumn}

\* The state in which _process_request has decoded the first line of the
\* stream (line 330) and is about to call _set_request_config
ConfigInit ==
    /\ mode = "stream"
    /\ nargs = 0
    /\ pc = "config"
    /\ exc = NoneAtom
    /\ nread = 1
    /\ eof = FALSE
    /\ \/ request \in ExtraPathsRequests /\ fs = PackageDirs
       \/ request \in PathRequests /\ fs \in Layouts
       \/ request \in PositionRequests /\ fs = PackageDirs
    /\ line = [kind |-> "json", json |-> request]
    /\ heap = [L0 |-> InitialSysPath]
    /\ sys_path = "L0"
    /\ default_sys_path = "L0"
    /\ self = FreshSelf
    /\ case_insensitive_completion = TRUE
    /\ script = EmptyDict
    /\ engine = EmptyDict
    /\ sys_stdout = "devnull"
    /\ sys_stderr = "devnull"
    /\ streams = [stdout |-> <<>>, stderr |-> <<>>, devnull |-> <<>>]
    /\ response = EmptyDict
    /\ log = <<>>
    /\ listed = {}
    /\ roots = {}

ConfigNext == SetRequestConfig \/ BuildScript

ConfigSpec == ConfigInit /\ [][ConfigNext]_vars

\* ----------------------------------------------------------------- claims

\* history: the entries of the log whose request was answered
Returned(l) == SelectSeq(l, LAMBDA e : e.returned)

\* history: the line on stdout that answers the request of log entry i
LineOf(i) == streams.stdout[Len(Returned(SubSeq(log, 1, i)))]

\* C1 (as claimed): when Session Config has just been applied, sys.path
\* equals the baseline captured at process start, whatever requests came
\* before.
C1_BaselineAtConfig ==
    pc = "resolve" => heap[sys_path] = InitialSysPath

NoConfig(r) == "config" \notin DOMAIN r

C3_FaultContainment ==
    /\ (mode = "stream" /\ pc = "done") => eof
    /\ (/\ mode = "stream" /\ pc = "done" /\ Len(log) = 2
        /\ ~log[1].decoded
        /\ log[2].decoded /\ log[2].failure = NoneAtom) =>
           /\ Len(streams.stdout) = 1
           /\ streams.stdout[1].text.id = log[2].id
           /\ streams.stdout[1].end = "\n"
           /\ Len(streams.stderr) = 1

C3_Witness ==
    /\ mode = "stream" /\ pc = "done" /\ Len(log) = 2
    /\ ~log[1].decoded
    /\ log[2].decoded /\ log[2].failure = NoneAtom
    /\ Len(streams.stdout) = 1

\* C4 (as claimed): in both entry modes no exception leaves the
\* dispatcher, and processing ends only when the input is exhausted.
C4_NeverFatal ==
    /\ pc # "crashed"
    /\ pc = "done" => IF mode = "stream" THEN eof ELSE nread = nargs

\* C4 (amended): in stream mode no exception leaves the dispatcher and the
\* loop ends only at end of input; in batch mode an exception raised while
\* handling an argument is not caught: the process ends with it, and only
\* a batch none of whose arguments fails is processed to the end.
C4_NeverFatalOnStream ==
    /\ mode = "stream" =>
          /\ pc # "crashed"
          /\ pc = "done" => eof
    /\ mode = "batch" =>
          /\ pc = "crashed" =>
                exc # NoneAtom /\ ~log[Len(log)].returned
          /\ pc = "done" =>
                nread = nargs /\ \A i \in DOMAIN log : log[i].returned

\* a failed line followed by an answered one, on the stream
C4_Witness ==
    /\ mode = "stream" /\ pc = "done" /\ Len(log) = 2
    /\ log[1].decoded /\ ~log[1].returned
    /\ log[2].returned
    /\ Len(streams.stdout) = 1

\* C5 (as claimed): a request all of whose engine queries raise KeyError
\* is answered, with an empty results array, whatever its lookup kind.
C5_KeyErrorMeansNoCandidates ==
    \A i \in DOMAIN log :
        (log[i].decoded /\ log[i].failure = "KeyError") =>
            /\ log[i].returned
            /\ LineOf(i).text.results = <<>>

\* C6: every request that decodes and whose engine queries all return is
\* answered; stdout holds exactly one line per answered request, each
\* ended by a newline, and nothing is ever written to the redirection
\* target.
C6_OneLinePerRequest ==
    /\ \A i \in DOMAIN log :
          (log[i].decoded /\ log[i].failure = NoneAtom) => log[i].returned
    /\ Len(streams.stdout) = Len(Returned(log))
    /\ \A k \in DOMAIN streams.stdout : streams.stdout[k].end = "\n"
    /\ streams.devnull = <<>>

\* a request with zero candidates answered on the stream, where stdout
\* was redirected when the line was read
C6_Witness ==
    /\ mode = "stream" /\ pc = "loop" /\ Len(log) = 1
    /\ log[1].failure = NoneAtom
    /\ Len(streams.stdout) = 1
    /\ streams.stdout[1].text.results = <<>>
    /\ sys_stdout = "stdout"

\* C7: the ids of the lines on stdout are, in order, the ids of the
\* requests answered so far, at every point of the run (so each answer is
\* written before the next line is read).
C7_IdsInOrder ==
    /\ Len(streams.stdout) = Len(Returned(log))
    /\ \A k \in DOMAIN streams.stdout :
          streams.stdout[k].text.id = Returned(log)[k].id

\* two answered requests with different ids
C7_Witness ==
    /\ Len(streams.stdout) = 2
    /\ streams.stdout[1].text.id = 2
    /\ streams.stdout[2].text.id = 1

Lookup == Get(request, "lookup", "completions")

\* C8 (as claimed): serializing zero candidates yields the id and an empty
\* results array, plus, for the arguments kind only, an arguments field
\* that is the empty string.
C8_ZeroCandidatesEmptyArguments ==
    (pc = "serialized" /\ engine = EmptyEngine) =>
        /\ response.raise = NoneAtom
        /\ response.value =
              JsonDumps(IF Lookup = "arguments"
                        THEN [id |-> request.id, results |-> <<>>,
                              arguments |-> <<>>]
                        ELSE [id |-> request.id, results |-> <<>>])

\* C8 (amended): serializing zero candidates yields the id and an empty
\* results array, plus, for the arguments kind only, an arguments field
\* whose value is the snippet "$0" (the final tab stop alone).
C8_ZeroCandidates ==
    (pc = "serialized" /\ engine = EmptyEngine) =>
        /\ response.raise = NoneAtom
        /\ response.value =
              JsonDumps(IF Lookup = "arguments"
                        THEN [id |-> request.id, results |-> <<>>,
                              arguments |-> <<"$", "0">>]
                        ELSE [id |-> request.id, results |-> <<>>])

C8_Witness ==
    /\ pc = "serialized"
    /\ engine = EmptyEngine
    /\ Lookup = "arguments"
    /\ response.value.json.arguments = <<"$", "0">>

\* history: the first definition goto_assignments() of n returns that is
\* not n itself, 0 when there is none
Successor(e, n) ==
    LET others == SelectSeq(e.goto[n], LAMBDA d : d # n)
    IN  IF Len(others) = 0 THEN 0 ELSE others[1]

\* history: where the import chain from n ends: the first non-import
\* definition on it, or the import that resolves to nothing but itself;
\* 0 when the chain comes back to a definition it has passed
RECURSIVE ChainEnd(_, _, _)
ChainEnd(e, n, passed) ==
    IF n \in passed THEN 0
    ELSE LET next == Successor(e, n)
         IN  IF next = 0 THEN n
             ELSE IF e.defs[next].type # "import" THEN next
             ELSE ChainEnd(e, next, passed \cup {n})

\* the candidate at the cursor is an import with a module path
ImportAtCursor ==
    /\ engine.defs[1].type = "import"
    /\ Truthy(engine.defs[1].module_path)

\* C9 (as claimed): resolving an import candidate always finishes by
\* itself, on every import graph: the recursion never runs into the
\* interpreter's limit.
C9_ResolutionAlwaysEnds ==
    pc = "serialized" => response.raise # "RecursionError"

\* What the code does about C9: resolving an import candidate finishes
\* when its chain of imports reaches a non-import definition, which is then
\* the one reported, or an import that resolves to nothing but itself,
\* where it stops; when the chain comes back to an import it has passed (A
\* to B, B to A) the recursion goes on to the interpreter's limit and the
\* request ends with RecursionError.
ResolutionEndsOffCycles ==
    (pc = "serialized" /\ ImportAtCursor) =>
        LET end == ChainEnd(engine, 1, {})
        IN  IF end = 0
            THEN response.raise = "RecursionError"
            ELSE /\ response.raise = NoneAtom
                 /\ \/ engine.defs[end].type # "import"
                    \/ Successor(engine, end) = 0
                 /\ IF Truthy(engine.defs[end].module_path)
                    THEN /\ Len(response.value.json.results) = 1
                         /\ response.value.json.results[1].text
                               = engine.defs[end].name
                    ELSE response.value.json.results = <<>>

\* two nested imports that reach a function
NestedImportsResolved ==
    /\ pc = "serialized"
    /\ ImportAtCursor
    /\ engine.goto[1] = <<2>> /\ engine.defs[2].type = "import"
    /\ engine.goto[2] = <<3>> /\ engine.defs[3].type = "function"
    /\ Len(response.value.json.results) = 1
    /\ response.value.json.results[1].text = engine.defs[3].name

\* the tuples _get_call_signatures yields for the engine's signatures
SignatureTuples == GetCallSignatures(engine.get_signatures).value

\* the names that are both a signature parameter and a name completion
SharedNames ==
    {t.name : t \in Range(SignatureTuples)}
    \cap {c.name : c \in Range(engine.complete.value)}

\* the entries of the response for the name x
EntriesFor(x) ==
    SelectSeq(response.value.json.results,
              LAMBDA e : Split(e.text, "=")[1] = x)

ArgumentFlavoured(e) == e.type = "property" /\ "snippet" \in DOMAIN e

\* C10 (as claimed): for a name that is both a signature parameter and a
\* name completion the response has exactly one entry, of the argument
\* shape, whatever the signatures, the prefix and the fuzzy mode.
C10_OneArgumentEntry ==
    (pc = "serialized" /\ Lookup = "completions"
     /\ engine.get_signatures.raise = NoneAtom
     /\ engine.complete.raise = NoneAtom) =>
        \A x \in SharedNames :
            /\ Len(EntriesFor(x)) = 1
            /\ ArgumentFlavoured(EntriesFor(x)[1])

\* the parameter x passes the filter of lines 116-118
PassesPrefix(x) ==
    self.fuzzy_matcher \/ StartsWith(Lower(x), Lower(Get(request, "prefix", <<>>)))

\* C10 (amended): for a name that is both a signature parameter and a name
\* completion: when fuzzy mode is on or the name starts with the prefix
\* (case-insensitively), the name completion is dropped and the response
\* has one entry of the argument shape for every signature that has the
\* parameter; otherwise the parameter is filtered out and the only entry
\* for the name is the name completion.
C10_ArgumentEntriesWin ==
    (pc = "serialized" /\ Lookup = "completions"
     /\ engine.get_signatures.raise = NoneAtom
     /\ engine.complete.raise = NoneAtom) =>
        \A x \in SharedNames :
            IF PassesPrefix(x)
            THEN /\ \A i \in DOMAIN EntriesFor(x) :
                        ArgumentFlavoured(EntriesFor(x)[i])
                 /\ Len(EntriesFor(x))
                       = Len(SelectSeq(SignatureTuples,
                                       LAMBDA t : t.name = x))
            ELSE /\ Len(EntriesFor(x)) = 1
                 /\ ~ArgumentFlavoured(EntriesFor(x)[1])

\* one signature with the parameter n, a name completion n, fuzzy off and
\* a prefix n starts with: one entry, with a snippet
C10_Witness ==
    /\ pc = "serialized" /\ Lookup = "completions"
    /\ ~self.fuzzy_matcher
    /\ Get(request, "prefix", <<>>) = <<"N">>
    /\ Len(engine.get_signatures.value) = 1
    /\ <<"n">> \in SharedNames
    /\ Len(EntriesFor(<<"n">>)) = 1
    /\ ArgumentFlavoured(EntriesFor(<<"n">>)[1])

\* s without the entries that occurred earlier in it
RECURSIVE FirstOccurrences(_)
FirstOccurrences(s) ==
    IF Len(s) = 0 THEN <<>>
    ELSE LET front == SubSeq(s, 1, Len(s) - 1)
         IN  IF s[Len(s)] \in Range(front) THEN FirstOccurrences(front)
             ELSE Append(FirstOccurrences(front), s[Len(s)])

\* the extraPaths entries that are not empty and not on the start-up path
Eligible(r) ==
    SelectSeq(Get(Get(r, "config", EmptyDict), "extraPaths", <<>>),
              LAMBDA path : path # <<>> /\ path \notin Range(InitialSysPath))

\* C11 (as claimed): the extra-path list in effect for a request, and
\* handed to the engine, holds exactly the extraPaths entries that are not
\* empty and not on the baseline path, each once, in order of first
\* occurrence.
C11_ExtraPathsOnceInOrder ==
    /\ pc = "resolve" =>
          self.extra_paths = FirstOccurrences(Eligible(request))
    /\ pc = "dispatch" =>
          script.project.added_sys_path = FirstOccurrences(Eligible(request))

\* What the code does about C11: the list holds the eligible entries in
\* the order of the request, repeated as often as the request repeats
\* them (first request of a process, where sys.path is still the
\* baseline).
ExtraPathsInRequestOrder ==
    (pc = "resolve" /\ nread = 1 /\ log = <<>>) =>
        self.extra_paths = Eligible(request)

\* a request that lists /x twice
ExtraPathListedTwice ==
    /\ pc = "resolve"
    /\ Eligible(request) = << <<"/", "x">>, <<"/", "x">> >>
    /\ self.extra_paths = << <<"/", "x">>, <<"/", "x">> >>

\* p is path or a directory above it
IsAncestorOrSelf(p, path) ==
    Len(p) <= Len(path) /\ SubSeq(path, 1, Len(p)) = p

\* C15: for every path and every layout of __init__.py files the package
\* root is resolved (the recursion ends), and the root is the path or a
\* directory above it; every directory from the path's parent up to the
\* root holds __init__.py; the root's parent holds none, or the root has
\* no parent; and resolving the root again returns the root.
C15_RootIsHighestPackage ==
    pc = "dispatch" =>
        LET path == Get(request, "path", <<>>)
            root == script.project.path
        IN  /\ IsAncestorOrSelf(root, path)
            /\ \A k \in Len(root)..(Len(path) - 1) :
                   SubSeq(path, 1, k) \in fs
            /\ DirName(root) = root \/ DirName(root) \notin fs
            /\ TopLevelModule(fs, root) = root

\* a file two packages deep is resolved to the outer package, two steps
\* up, where the root directory above it holds no __init__.py
C15_Witness ==
    /\ pc = "dispatch"
    /\ request.path = <<"/", "p", "p", "m.py">>
    /\ fs = { <<"/", "p", "p">>, <<"/", "p">> }
    /\ script.project.path = <<"/", "p">>

\* C19 (as claimed): the engine is queried at the row given by the
\* request's line field and at the column given by its column field, no
\* offset applied to either.
C19_PositionAsGiven ==
    pc = "dispatch" => script.pos = <<request.line, request.column>>

\* C19 (amended): the engine is queried at the row that is the request's
\* line field plus one (the field counts rows from 0, the engine from 1)
\* and at the column given by the request's column field.
C19_RowPlusOne ==
    pc = "dispatch" =>
        /\ script.pos[1] = request.line + 1
        /\ script.pos[2] = request.column
        /\ script.pos[1] >= 1

\* a request on the first row of the buffer, queried at row 1
C19_Witness ==
    /\ pc = "dispatch"
    /\ request.line = 0 /\ request.column = 1
    /\ script.pos = <<1, 1>>

\* the results of the response in hand
Results == response.value.json.results

\* the name a result entry carries
EntryName(e) == IF "text" \in DOMAIN e THEN e.text ELSE e.name

\* the candidate a result entry was made from (the candidates of one
\* engine differ in their names)
OriginOf(e) == CHOOSE c \in Range(engine.defs) : c.name = EntryName(e)

\* the description of a tooltip: the trimmed doc string or, when that is
\* empty, the right-hand side
DescriptionOf(c) ==
    LET doc == IF c.doc = None THEN <<>> ELSE Strip(c.doc)
    IN  IF doc # <<>> THEN doc ELSE AdditionalInfo(c)

\* the candidates, in engine order, that have an origin file
Resolved == SelectSeq(engine.defs, LAMBDA c : Truthy(c.module_path))

\* C12 (as claimed): a tooltip response holds at most one result: the
\* first candidate in engine order that has an origin file and a
\* non-empty description; when there is no such candidate it holds none.
C12_FirstDescribedCandidate ==
    (pc = "serialized" /\ Lookup = "tooltip") =>
        LET described == SelectSeq(Resolved,
                                   LAMBDA c : DescriptionOf(c) # <<>>)
        IN  /\ response.raise = NoneAtom
            /\ Len(Results) <= 1
            /\ IF Len(described) = 0 THEN Results = <<>>
               ELSE /\ Len(Results) = 1
                    /\ Results[1].text = described[1].name
                    /\ Results[1].description = DescriptionOf(described[1])

\* What the code does about C12: the tooltip holds the first candidate in
\* engine order that has an origin file, whatever its description, which
\* is the trimmed doc string or, when that is empty, the right-hand side
\* (empty as well when there is none to show).
TooltipIsFirstResolved ==
    (pc = "serialized" /\ Lookup = "tooltip") =>
        /\ response.raise = NoneAtom
        /\ IF Len(Resolved) = 0 THEN Results = <<>>
           ELSE /\ Len(Results) = 1
                /\ Results[1].text = Resolved[1].name
                /\ Results[1].description = DescriptionOf(Resolved[1])

\* a candidate without a description answered although the next one has
\* a doc string
EmptyTooltipEmitted ==
    /\ pc = "serialized" /\ Lookup = "tooltip"
    /\ Len(Resolved) = 2
    /\ DescriptionOf(Resolved[1]) = <<>>
    /\ DescriptionOf(Resolved[2]) = <<"d">>
    /\ Len(Results) = 1
    /\ Results[1].description = <<>>

\* C13 (as claimed): a response of a kind that carries fileName
\* (definitions, tooltip, usages, methods) is made without failure and no
\* entry of it comes from a candidate without an origin file.
C13_NoEntryWithoutOrigin ==
    (pc = "serialized"
     /\ Lookup \in {"definitions", "tooltip", "usages", "methods"}) =>
        /\ response.raise = NoneAtom
        /\ \A i \in DOMAIN Results :
               /\ Truthy(Results[i].fileName)
               /\ Truthy(OriginOf(Results[i]).module_path)

\* What the code does about C13: definitions and tooltip drop the
\* candidates without an origin file, without failure; usages and
\* methods report every candidate, with the fileName it has (null or '').
UnresolvableDroppedByGoto ==
    (pc = "serialized" /\ response.raise = NoneAtom) =>
        /\ Lookup \in {"definitions", "tooltip"} =>
              \A i \in DOMAIN Results : Truthy(Results[i].fileName)
        /\ Lookup = "definitions" => Len(Results) = Len(Resolved)
        /\ Lookup \in {"usages", "methods"} =>
              Len(Results) = Len(engine.defs)

\* a usage without an origin file, reported
UsageWithoutOrigin ==
    /\ pc = "serialized" /\ Lookup = "usages"
    /\ Len(engine.defs) = 1
    /\ engine.defs[1].module_path = None
    /\ Len(Results) = 1
    /\ Results[1].fileName = None

\* the kinds of response whose entries carry the kind of the candidate
KindLookups == {"completions", "definitions", "tooltip"}

\* C14 (as claimed): the kind reported for a candidate is constant if its
\* native kind is statement and its name is all uppercase; else builtin if
\* it is not an import or keyword and is flagged built-in; else the kind
\* the table gives (module to import, instance to variable, statement to
\* value, param to variable), any other kind unchanged.
C14_ConstantThenBuiltin ==
    (pc = "serialized" /\ Lookup \in KindLookups) =>
        \A i \in DOMAIN Results :
            LET c == OriginOf(Results[i])
            IN  Results[i].type =
                  IF c.type = "statement" /\ IsUpper(c.name)
                  THEN "constant"
                  ELSE IF c.type \notin {"import", "keyword"} /\ c.builtin
                  THEN "builtin"
                  ELSE CASE c.type = "module" -> "import"
                         [] c.type = "instance" -> "variable"
                         [] c.type = "statement" -> "value"
                         [] c.type = "param" -> "variable"
                         [] OTHER -> c.type

\* C14 (amended): the kind reported for a candidate is builtin if it is
\* not an import or keyword and is flagged built-in; else constant if its
\* native kind is statement and its name is all uppercase; else the kind
\* the table gives, any other kind unchanged.
C14_BuiltinThenConstant ==
    (pc = "serialized" /\ Lookup \in KindLookups) =>
        \A i \in DOMAIN Results :
            LET c == OriginOf(Results[i])
            IN  Results[i].type =
                  IF c.type \notin {"import", "keyword"} /\ c.builtin
                  THEN "builtin"
                  ELSE IF c.type = "statement" /\ IsUpper(c.name)
                  THEN "constant"
                  ELSE CASE c.type = "module" -> "import"
                         [] c.type = "instance" -> "variable"
                         [] c.type = "statement" -> "value"
                         [] c.type = "param" -> "variable"
                         [] OTHER -> c.type

\* a built-in statement with an uppercase name, reported as builtin
C14_Witness ==
    /\ pc = "serialized" /\ Lookup = "completions"
    /\ Len(engine.defs) = 1
    /\ engine.defs[1].type = "statement"
    /\ engine.defs[1].name = <<"N">>
    /\ engine.defs[1].builtin
    /\ Len(Results) = 1
    /\ Results[1].type = "builtin"

\* C18: an entry of a definitions or tooltip response carries the line of
\* its candidate minus one, an entry of a usages or methods response the
\* line of its candidate as the engine gives it, and every such entry the
\* column of its candidate as the engine gives it.
C18_LineNumbering ==
    (pc = "serialized" /\ response.raise = NoneAtom) =>
        /\ Lookup \in {"definitions", "tooltip"} =>
              \A i \in DOMAIN Results :
                  /\ Results[i].line = OriginOf(Results[i]).line - 1
                  /\ Results[i].column = OriginOf(Results[i]).column
        /\ Lookup \in {"usages", "methods"} =>
              \A i \in DOMAIN Results :
                  /\ Results[i].line = OriginOf(Results[i]).line
                  /\ Results[i].column = OriginOf(Results[i]).column

\* the candidate on line 2, column 1 reported by definitions on line 1
C18_Witness ==
    /\ pc = "serialized" /\ Lookup = "definitions"
    /\ Len(engine.defs) = 1
    /\ engine.defs[1].line = 2 /\ engine.defs[1].column = 1
    /\ Len(Results) = 1
    /\ Results[1].line = 1 /\ Results[1].column = 1

\* the same candidate reported by usages on line 2
SamePositionInUsages ==
    /\ pc = "serialized" /\ Lookup = "usages"
    /\ Len(engine.defs) = 1
    /\ engine.defs[1].line = 2 /\ engine.defs[1].column = 1
    /\ Len(Results) = 1
    /\ Results[1].line = 2 /\ Results[1].column = 1

\* the arguments snippet of the response without its final tab stop $0
SnippetBody ==
    LET snippet == response.value.json.arguments
    IN  SubSeq(snippet, 1, Len(snippet) - 2)

\* the arguments of the snippet, which ', ' separates (no name and no
\* default value of the model holds a comma)
SnippetEntries ==
    IF SnippetBody = <<>> THEN <<>>
    ELSE LET parts == Split(SnippetBody, ",")
         IN  [i \in DOMAIN parts |->
                 IF i = 1 THEN parts[i] ELSE Tail(parts[i])]

FirstIndexOf(s, c) ==
    CHOOSE i \in DOMAIN s : s[i] = c /\ \A j \in 1..(i - 1) : s[j] # c

\* the name in one argument: ${i:name} or name=${i:value}
EntryParam(e) ==
    IF e[1] = "$" THEN SubSeq(e, FirstIndexOf(e, ":") + 1, Len(e) - 1)
    ELSE SubSeq(e, 1, FirstIndexOf(e, "=") - 1)

\* the index of the tab stop in one argument, as written
EntryIndex(e) ==
    SubSeq(e, FirstIndexOf(e, "{") + 1, FirstIndexOf(e, ":") - 1)

SnippetNames == [i \in DOMAIN SnippetEntries |-> EntryParam(SnippetEntries[i])]

\* the names of the signature parameters, in signature order
TupleNames == [i \in DOMAIN SignatureTuples |-> SignatureTuples[i].name]

\* where the name x first occurs among the signature parameters
FirstOccurrence(x) == FirstIndexOf(TupleNames, x)

\* C16 (as claimed): no parameter name occurs in the arguments snippet
\* more than once, every name in it is the name of a signature parameter,
\* and the names stand in the order of their first occurrence in the
\* signatures.
C16_OrderOfFirstOccurrence ==
    (pc = "serialized" /\ Lookup = "arguments") =>
        /\ \A i, j \in DOMAIN SnippetNames :
               i # j => SnippetNames[i] # SnippetNames[j]
        /\ \A i \in DOMAIN SnippetNames :
               SnippetNames[i] \in Range(TupleNames)
        /\ \A i, j \in DOMAIN SnippetNames :
               i < j => FirstOccurrence(SnippetNames[i])
                           < FirstOccurrence(SnippetNames[j])

\* the signature parameters the snippet takes: all when useSnippets is
\* 'all', else those without a default value
Emitted ==
    SelectSeq(SignatureTuples,
              LAMBDA t : ~Truthy(t.value) \/ self.use_snippets = "all")

\* C16 (amended): no parameter name occurs in the arguments snippet more
\* than once, and the names in it are the names of the parameters the
\* snippet takes (all when useSnippets is 'all', else those without a
\* default value), in the order of their first occurrence among these.
C16_OrderAmongEmitted ==
    (pc = "serialized" /\ Lookup = "arguments") =>
        /\ \A i, j \in DOMAIN SnippetNames :
               i # j => SnippetNames[i] # SnippetNames[j]
        /\ SnippetNames
              = FirstOccurrences([i \in DOMAIN Emitted |-> Emitted[i].name])

\* n in two signatures, taken once, before m
C16_Witness ==
    /\ pc = "serialized" /\ Lookup = "arguments"
    /\ TupleNames = << <<"n">>, <<"n">>, <<"m">> >>
    /\ SnippetNames = << <<"n">>, <<"m">> >>

\* C20 (as claimed): the tab stops of the arguments snippet are numbered
\* 1, 2, ..., n in order of appearance.
C20_ConsecutivePlaceholders ==
    (pc = "serialized" /\ Lookup = "arguments") =>
        \A i \in DOMAIN SnippetEntries :
            EntryIndex(SnippetEntries[i]) = IntToStr(i)

\* What the code does about C20: the tab stops are numbered in ascending
\* order from 1 on, and a number is left out for every parameter that is
\* left out because its name was taken before.
PlaceholdersAscend ==
    (pc = "serialized" /\ Lookup = "arguments") =>
        /\ Len(SnippetEntries) > 0 =>
              EntryIndex(SnippetEntries[1]) = IntToStr(1)
        /\ \A i \in DOMAIN SnippetEntries :
              \E k \in i..Len(Emitted) :
                  /\ EntryIndex(SnippetEntries[i]) = IntToStr(k)
                  /\ Emitted[k].name = SnippetNames[i]
                  /\ \A j \in 1..(k - 1) : Emitted[j].name # SnippetNames[i]

\* n in two signatures: the tab stop of m is numbered 3
PlaceholderLeftOut ==
    /\ pc = "serialized" /\ Lookup = "arguments"
    /\ TupleNames = << <<"n">>, <<"n">>, <<"m">> >>
    /\ response.value.json.arguments
          = <<"$", "{", "1", ":", "n", "}", ",", " ",
              "$", "{", "3", ":", "m", "}", "$", "0">>

\* C17: the loop of watch ends only in a read that returns the empty
\* string, and nothing is written in that step or after it; a line that
\* was read, blank or malformed ones included, is handled and the loop
\* comes back to reading, whether the request was answered or failed; and
\* on a finite input the loop ends.
C17_LoopEndsAtEndOfInput ==
    /\ [](pc = "done" => eof)
    /\ [][pc' = "done" =>
            /\ pc \in {"loop", "done"}
            /\ eof'
            /\ nread' = nread
            /\ streams' = streams]_vars
    /\ [][nread' = nread + 1 => pc' = "process" /\ ~eof']_vars
    /\ [](pc = "process" => <>(pc = "loop"))
    /\ [](pc = "done" => Len(log) = nread)
    /\ <>(pc = "done")

\* a blank line, then a request that fails, then the end of the input
C17_Witness ==
    /\ mode = "stream" /\ pc = "done" /\ eof
    /\ nread = 2 /\ Len(log) = 2
    /\ ~log[1].decoded
    /\ log[2].decoded /\ ~log[2].returned
    /\ Len(streams.stderr) = 2
    /\ streams.stdout = <<>>

====
